---- MODULE Spec2Model ----
(***************************************************************************)
(* Token issuance, validation, rotation and reuse detection of the auth    *)
(* handlers (Login, Register, AuthenticateMiddleware, Logout).             *)
(*                                                                         *)
(* The handlers are translated from the handler source.  The Service       *)
(* methods they call (ValidateToken, CheckIfTokenUsed, GenerateTokens,     *)
(* UseToken, InvalidateTokens, LoginFromCredentials, CreateUser) are not   *)
(* part of the available source; they are modelled from the specification  *)
(* of the Token Service / Credential Store.  Where the specification       *)
(* leaves a result open (a store update of an id that has no record) the   *)
(* model takes every outcome.                                              *)
(*                                                                         *)
(* Each call of GenerateTokens happens at its own clock instant, so two    *)
(* issued pairs never have the same token strings.                         *)
(***************************************************************************)
EXTENDS Naturals, FiniteSets

\* ------------------------------------------------------------------ bounds
MaxTime == 3
MaxCount == 1
NumProcs == 2

\* Token life times (deployment configuration; access strictly shorter).
AccessTTL == 3
RefreshTTL == AccessTTL + 1

Users == {"u1", "u2"}
NoUser == ""
Procs == 1..NumProcs

VARIABLES users, clock, issued, req, resp, redeemed, revoked

vars == <<users, clock, issued, req, resp, redeemed, revoked>>

\* History, not program state:
\*   redeemed     the refresh tokens a refresh-path request was given a pair for
\*   revoked      the tokens that had been sent for a principal when a Logout
\*                of that principal completed

\* ------------------------------------------------------------------ tokens
Tok(s, c, k, e) == [sub |-> s, count |-> c, class |-> k, exp |-> e]

\* The empty string (an absent refresh_token header, or the "" that
\* GenerateTokens returns next to an error).
NoToken == Tok(NoUser, 0, "none", 0)
\* A string that is no token of this service (bad signature).
Forged == Tok(NoUser, 0, "forged", 0)

\* The record of a principal that was never created.
NoRecord == [exists |-> FALSE, count |-> 0, refresh |-> NoToken, used |-> FALSE]

Decodable(t) == t.class \in {"access", "refresh"}

\* ------------------------------------------------------------------ Service
\* ValidateToken: signature and expiry, then the record's count.  There is
\* one ValidateToken for both token classes, so the class is not checked.
ValidateTokenIn(store, t) ==
    /\ Decodable(t)
    /\ clock < t.exp
    /\ t.sub \in Users
    /\ store[t.sub].exists
    /\ store[t.sub].count = t.count

ValidateTokenOK(t) == ValidateTokenIn(users, t)

\* The user id ValidateToken returns next to an error: no subject.
FailedValidateId == NoUser

CheckIfTokenUsed(id) == users[id].used

GenerateAccessToken(id, count) == Tok(id, count, "access", clock + AccessTTL)

GenerateRefreshToken(id, count) == Tok(id, count, "refresh", clock + RefreshTTL)

\* The store after GenerateTokens(id, count): the new refresh token is the
\* current one, not used.  An id without a record has nothing to update.
GenerateTokensIn(store, id, count) ==
    IF id \in Users /\ store[id].exists
    THEN [store EXCEPT ![id].refresh = GenerateRefreshToken(id, count),
                       ![id].used = FALSE]
    ELSE store

GenerateTokensStore(id, count) == GenerateTokensIn(users, id, count)

\* The store after UseToken(id).
UseTokenIn(store, id) ==
    IF id \in Users /\ store[id].exists
    THEN [store EXCEPT ![id].used = TRUE]
    ELSE store

UseTokenStore(id) == UseTokenIn(users, id)

\* The store after InvalidateTokens(id).
InvalidateTokensStore(id) == [users EXCEPT ![id].count = @ + 1]

\* The store after CreateUser(user).
CreateUserStore(id, refresh) ==
    [users EXCEPT ![id] = [exists |-> TRUE, count |-> 0,
                           refresh |-> refresh, used |-> FALSE]]

\* ------------------------------------------------------------------ requests
\* The locals of a handler between its store steps, each kept while the
\* code can still read it: accessToken until GenerateTokens on the access
\* path, refreshToken on the refresh path only.  lost is history: a request
\* that ran at the same time has been given a pair for the same refresh
\* token.
Idle == [op |-> "idle", pc |-> "idle", acc |-> NoToken, ref |-> NoToken,
         uid |-> NoUser, cnt |-> 0, path |-> "none",
         newAcc |-> NoToken, newRef |-> NoToken, lost |-> FALSE]

\* The response sent by the step just taken (NoResp when the step ended no
\* request): its status, the access_token and refresh_token headers (hdrs:
\* they were added), whether c.Next() ran the handler.  again is history:
\* the refresh token of the request had been redeemed before.  stale is
\* history: the access token of a rejected Logout was sent before a Logout
\* of its principal completed.
NoResp == [op |-> "none", res |-> "none", ref |-> NoToken,
           uid |-> NoUser, path |-> "none", hdrs |-> FALSE,
           hdrAcc |-> NoToken, hdrRef |-> NoToken, next |-> FALSE,
           lost |-> FALSE, again |-> FALSE, stale |-> FALSE]

\* The response of request r that ends with error e and no headers.
Reject(r, e) == [NoResp EXCEPT !.op = r.op, !.res = e, !.ref = r.ref,
                    !.uid = r.uid, !.path = r.path, !.lost = r.lost]

\* What a client can put into a request: a token it was sent, a string
\* that is no token, or nothing.  (The pair a failed Register sends belongs
\* to an id that never gets a record; it is validated like Forged.)
Presentable == issued \cup {Forged, NoToken}

\* An Authorization header that is absent, not two words, or not Bearer.
BadHeaders == {"none", "format", "type"}

HeaderError(h) ==
    CASE h = "none" -> "400 Tokens not passed"
      [] h = "format" -> "400 Invalid Token Format"
      [] h = "type" -> "400 Invalid Token Type"

InFlight(p) == req[p].pc # "idle"

Init ==
    /\ users = [u \in Users |-> NoRecord]
    /\ clock = 0
    /\ issued = {}
    /\ req = [p \in Procs |-> Idle]
    /\ resp = NoResp
    /\ redeemed = {}
    /\ revoked = {}

\* Time passes.
Tick ==
    /\ clock < MaxTime
    /\ clock' = clock + 1
    /\ resp' = NoResp
    /\ UNCHANGED <<users, issued, req, redeemed, revoked>>

RegisterOutcomes == {"gen", "create", "ok"}

\* Register with a User literal that leaves RefreshToken out: the record is
\* created without the refresh token that is returned.
RegisterNoRefresh(p, u, outcome) ==
    /\ req[p].pc = "idle"
    /\ ~users[u].exists
    /\ LET access == GenerateAccessToken(u, 0)
           refresh == GenerateRefreshToken(u, 0)
           r == [Idle EXCEPT !.op = "register", !.uid = u]
       IN IF outcome = "gen"
          THEN /\ resp' = Reject(r, "ErrGenerateTokens")
               /\ UNCHANGED <<users, clock, issued>>
          ELSE /\ clock < MaxTime
               /\ clock' = clock + 1
               /\ issued' = IF outcome = "ok" THEN issued \cup {access, refresh}
                                             ELSE issued
               /\ users' = IF outcome = "ok" THEN CreateUserStore(u, NoToken)
                                             ELSE users
               /\ resp' = [Reject(r, IF outcome = "ok" THEN "ok"
                                                      ELSE "400 BadRequest")
                              EXCEPT !.hdrs = TRUE, !.hdrAcc = access,
                                     !.hdrRef = refresh]
    /\ UNCHANGED <<req, redeemed, revoked>>

\* Register: GenerateTokens for a new id at count 0, the headers, then
\* user.Validate and CreateUser ("create": one of the two fails).
Register(p, u, outcome) ==
    /\ req[p].pc = "idle"
    /\ ~users[u].exists
    /\ LET access == GenerateAccessToken(u, 0)
           refresh == GenerateRefreshToken(u, 0)
           r == [Idle EXCEPT !.op = "register", !.uid = u]
       IN IF outcome = "gen"
          THEN /\ resp' = Reject(r, "ErrGenerateTokens")
               /\ UNCHANGED <<users, clock, issued>>
          ELSE /\ clock < MaxTime
               /\ clock' = clock + 1
               /\ issued' = IF outcome = "ok" THEN issued \cup {access, refresh}
                                             ELSE issued
               /\ users' = IF outcome = "ok" THEN CreateUserStore(u, refresh)
                                             ELSE users
               /\ resp' = [Reject(r, IF outcome = "ok" THEN "ok"
                                                      ELSE "400 BadRequest")
                              EXCEPT !.hdrs = TRUE, !.hdrAcc = access,
                                     !.hdrRef = refresh]
    /\ UNCHANGED <<req, redeemed, revoked>>

\* Login, first store step: LoginFromCredentials.
LoginStart(p, u, ok) ==
    /\ req[p].pc = "idle"
    /\ LET r == [Idle EXCEPT !.op = "login"]
       IN IF ok /\ users[u].exists
          THEN /\ req' = [req EXCEPT ![p] = [r EXCEPT !.pc = "lgen", !.uid = u,
                                                !.cnt = users[u].count]]
               /\ resp' = NoResp
          ELSE /\ resp' = Reject(r, "ErrLoginFromCredentials")
               /\ UNCHANGED req
    /\ UNCHANGED <<users, clock, issued, redeemed, revoked>>

\* LoginGenerate with GenerateTokens(id.Hex(), 0): the count that
\* LoginFromCredentials returned is dropped.
LoginGenerateZero(p, ok) ==
    /\ req[p].pc = "lgen"
    /\ req' = [req EXCEPT ![p] = Idle]
    /\ IF ok
       THEN LET access == GenerateAccessToken(req[p].uid, 0)
                refresh == GenerateRefreshToken(req[p].uid, 0)
            IN /\ clock < MaxTime
               /\ clock' = clock + 1
               /\ users' = GenerateTokensStore(req[p].uid, 0)
               /\ resp' = [Reject(req[p], "ok") EXCEPT !.hdrs = TRUE,
                              !.hdrAcc = access, !.hdrRef = refresh]
               /\ issued' = issued \cup {access, refresh}
       ELSE /\ resp' = [Reject(req[p], "ErrGenerateTokens") EXCEPT !.hdrs = TRUE]
            /\ UNCHANGED <<users, clock, issued>>
    /\ UNCHANGED <<redeemed, revoked>>

\* Login, second store step: GenerateTokens; the headers are added whatever
\* GenerateTokens returned.
LoginGenerate(p, ok) ==
    /\ req[p].pc = "lgen"
    /\ req' = [req EXCEPT ![p] = Idle]
    /\ IF ok
       THEN LET access == GenerateAccessToken(req[p].uid, req[p].cnt)
                refresh == GenerateRefreshToken(req[p].uid, req[p].cnt)
            IN /\ clock < MaxTime
               /\ clock' = clock + 1
               /\ users' = GenerateTokensStore(req[p].uid, req[p].cnt)
               /\ resp' = [Reject(req[p], "ok") EXCEPT !.hdrs = TRUE,
                              !.hdrAcc = access, !.hdrRef = refresh]
               /\ issued' = issued \cup {access, refresh}
       ELSE /\ resp' = [Reject(req[p], "ErrGenerateTokens") EXCEPT !.hdrs = TRUE]
            /\ UNCHANGED <<users, clock, issued>>
    /\ UNCHANGED <<redeemed, revoked>>

\* MwBadHeader with c.Next() called ahead of the checks of the header: the
\* handler has run when the request is rejected.
MwBadHeaderNext(p, h) ==
    /\ req[p].pc = "idle"
    /\ resp' = [Reject([Idle EXCEPT !.op = "mw"], HeaderError(h))
                   EXCEPT !.next = TRUE]
    /\ UNCHANGED <<users, clock, issued, req, redeemed, revoked>>

\* AuthenticateMiddleware with a bad Authorization header.
MwBadHeader(p, h) ==
    /\ req[p].pc = "idle"
    /\ resp' = Reject([Idle EXCEPT !.op = "mw"], HeaderError(h))
    /\ UNCHANGED <<users, clock, issued, req, redeemed, revoked>>

\* AuthenticateMiddleware with "Bearer a" up to its first store step:
\* ValidateAndGenerateTokens validates the access token.  On an error
\* user_id keeps what ValidateToken returned next to the error: no subject,
\* the empty id.
MwStart(p, a, r) ==
    /\ req[p].pc = "idle"
    /\ resp' = NoResp
    /\ LET q == [Idle EXCEPT !.op = "mw"]
       IN IF ValidateTokenOK(a)
          THEN req' = [req EXCEPT ![p] = [q EXCEPT !.pc = "gen", !.acc = a,
                          !.uid = a.sub, !.cnt = a.count, !.path = "access"]]
          ELSE req' = [req EXCEPT ![p] = [q EXCEPT !.pc = "vrt", !.ref = r,
                                             !.uid = FailedValidateId]]
    /\ UNCHANGED <<users, clock, issued, redeemed, revoked>>

\* ValidateRefreshToken, first store step: ValidateToken(refreshToken).
\* Only the count leaves ValidateRefreshToken; its user_id is a local.
MwValidateRefresh(p) ==
    /\ req[p].pc = "vrt"
    /\ IF ValidateTokenOK(req[p].ref)
       THEN /\ req' = [req EXCEPT ![p].pc = "chk", ![p].cnt = req[p].ref.count]
            /\ resp' = NoResp
       ELSE /\ req' = [req EXCEPT ![p] = Idle]
            /\ resp' = Reject(req[p], "400 Access and Refresh Tokens are Expired")
    /\ UNCHANGED <<users, clock, issued, redeemed, revoked>>

\* MwCheckUsed with InvalidateTokens(user_id) when the token is found used:
\* reuse detection starts a new count.
MwCheckUsedRevoke(p, ok) ==
    /\ req[p].pc = "chk"
    /\ IF ok /\ ~CheckIfTokenUsed(req[p].ref.sub)
       THEN /\ req' = [req EXCEPT ![p].pc = "gen", ![p].path = "refresh"]
            /\ resp' = NoResp
            /\ UNCHANGED users
       ELSE /\ req' = [req EXCEPT ![p] = Idle]
            /\ resp' = Reject(req[p],
                          IF ok THEN "400 Token Reuse Detected"
                                ELSE "400 Error Validating Token Reusage")
            /\ users' = IF ok THEN InvalidateTokensStore(req[p].ref.sub)
                              ELSE users
    /\ UNCHANGED <<clock, issued, redeemed, revoked>>

\* ValidateRefreshToken, second store step: CheckIfTokenUsed(user_id) with
\* the user id of the refresh token.
MwCheckUsed(p, ok) ==
    /\ req[p].pc = "chk"
    /\ IF ok /\ ~CheckIfTokenUsed(req[p].ref.sub)
       THEN /\ req' = [req EXCEPT ![p].pc = "gen", ![p].path = "refresh"]
            /\ resp' = NoResp
       ELSE /\ req' = [req EXCEPT ![p] = Idle]
            /\ resp' = Reject(req[p],
                          IF ok THEN "400 Token Reuse Detected"
                                ELSE "400 Error Validating Token Reusage")
    /\ UNCHANGED <<users, clock, issued, redeemed, revoked>>

\* The refresh token that p is rotating: CheckIfTokenUsed has let it pass.
Rotating(p) ==
    IF req[p].op = "mw" /\ req[p].path = "refresh" THEN {req[p].ref} ELSE {}

\* MwGenerate with InvalidateTokens(user_id) ahead of GenerateTokens: every
\* accepted request starts a new count, and the new pair has it.
MwGenerateNewCount(p, ok) ==
    /\ req[p].pc = "gen"
    /\ IF ok
       THEN /\ clock < MaxTime
            /\ clock' = clock + 1
            /\ users' = IF req[p].uid \in Users
                        THEN [users EXCEPT
                                ![req[p].uid].count = @ + 1,
                                ![req[p].uid].refresh =
                                    GenerateRefreshToken(req[p].uid, req[p].cnt + 1),
                                ![req[p].uid].used = FALSE]
                        ELSE users
            /\ req' = [req EXCEPT ![p].pc = "use", ![p].acc = NoToken,
                          ![p].newAcc = GenerateAccessToken(req[p].uid, req[p].cnt + 1),
                          ![p].newRef = GenerateRefreshToken(req[p].uid, req[p].cnt + 1)]
            /\ resp' = NoResp
       ELSE /\ req' = [req EXCEPT ![p] = Idle]
            /\ resp' = Reject(req[p], "400 Error Generating Tokens")
            /\ UNCHANGED <<users, clock>>
    /\ UNCHANGED <<issued, redeemed, revoked>>

\* ValidateAndGenerateTokens: GenerateTokens(user_id, count).
MwGenerate(p, ok) ==
    /\ req[p].pc = "gen"
    /\ IF ok
       THEN /\ clock < MaxTime
            /\ clock' = clock + 1
            /\ users' = GenerateTokensStore(req[p].uid, req[p].cnt)
            /\ req' = [req EXCEPT ![p].pc = "use", ![p].acc = NoToken,
                          ![p].newAcc = GenerateAccessToken(req[p].uid, req[p].cnt),
                          ![p].newRef = GenerateRefreshToken(req[p].uid, req[p].cnt)]
            /\ resp' = NoResp
       ELSE /\ req' = [req EXCEPT ![p] = Idle]
            /\ resp' = Reject(req[p], "400 Error Generating Tokens")
            /\ UNCHANGED <<users, clock>>
    /\ UNCHANGED <<issued, redeemed, revoked>>

\* Requests in flight with the refresh token that p has just redeemed.
Rivals(p) ==
    {q \in Procs \ {p} : /\ req[p].path = "refresh"
                         /\ req[q].op = "mw"
                         /\ req[q].ref = req[p].ref}

\* MwUse without the return on the error of UseToken: the headers are
\* added and c.Next() is called whatever UseToken returned.
MwUseNoReturn(p, ok) ==
    /\ req[p].pc = "use"
    /\ users' = IF ok THEN UseTokenStore(req[p].uid) ELSE users
    /\ req' = [req EXCEPT ![p] = Idle]
    /\ resp' = [Reject(req[p], IF ok THEN "ok"
                                     ELSE "400 Error Updating Token Usage")
                   EXCEPT !.hdrs = TRUE, !.hdrAcc = req[p].newAcc,
                          !.hdrRef = req[p].newRef, !.next = TRUE]
    /\ issued' = issued \cup {req[p].newAcc, req[p].newRef}
    /\ redeemed' = redeemed \cup Rotating(p)
    /\ UNCHANGED <<clock, revoked>>

\* ValidateAndGenerateTokens: UseToken(user_id); then the middleware adds
\* the headers and calls c.Next().  UseToken of an id that has no record
\* updates nothing; whether it returns an error is open (ok).
MwUse(p, ok) ==
    /\ req[p].pc = "use"
    /\ IF ok
       THEN /\ users' = UseTokenStore(req[p].uid)
            /\ req' = [q \in Procs |->
                         IF q = p THEN Idle
                         ELSE IF q \in Rivals(p)
                              THEN [req[q] EXCEPT !.lost = TRUE]
                              ELSE req[q]]
            /\ resp' = [Reject(req[p], "ok") EXCEPT !.hdrs = TRUE,
                           !.hdrAcc = req[p].newAcc, !.hdrRef = req[p].newRef,
                           !.next = TRUE,
                           !.again = (Rotating(p) \cap redeemed # {})]
            /\ issued' = issued \cup {req[p].newAcc, req[p].newRef}
            /\ redeemed' = redeemed \cup Rotating(p)
       ELSE /\ req' = [req EXCEPT ![p] = Idle]
            /\ resp' = Reject(req[p], "400 Error Updating Token Usage")
            /\ UNCHANGED <<users, issued, redeemed>>
    /\ UNCHANGED <<clock, revoked>>

\* Logout with a bad Authorization header.
LogoutBadHeader(p, h) ==
    /\ req[p].pc = "idle"
    /\ resp' = Reject([Idle EXCEPT !.op = "logout"], HeaderError(h))
    /\ UNCHANGED <<users, clock, issued, req, redeemed, revoked>>

\* LogoutStart with a check of signature and expiry only: the count of the
\* token is not compared with the count of the record.
LogoutStartNoCount(p, a) ==
    /\ req[p].pc = "idle"
    /\ LET q == [Idle EXCEPT !.op = "logout", !.acc = a]
       IN IF Decodable(a) /\ clock < a.exp /\ a.sub \in Users
                /\ users[a.sub].exists
          THEN /\ req' = [req EXCEPT ![p] = [q EXCEPT !.pc = "inv", !.uid = a.sub]]
               /\ resp' = NoResp
          ELSE /\ resp' = [Reject(q, "ErrValidateToken")
                              EXCEPT !.stale = (a \in revoked)]
               /\ UNCHANGED req
    /\ UNCHANGED <<users, clock, issued, redeemed, revoked>>

\* Logout with "Bearer a" up to its first store step: ValidateToken.
LogoutStart(p, a) ==
    /\ req[p].pc = "idle"
    /\ LET q == [Idle EXCEPT !.op = "logout", !.acc = a]
       IN IF ValidateTokenOK(a)
          THEN /\ req' = [req EXCEPT ![p] = [q EXCEPT !.pc = "inv", !.uid = a.sub]]
               /\ resp' = NoResp
          ELSE /\ resp' = [Reject(q, "ErrValidateToken")
                              EXCEPT !.stale = (a \in revoked)]
               /\ UNCHANGED req
    /\ UNCHANGED <<users, clock, issued, redeemed, revoked>>

\* LogoutInvalidate without the call of InvalidateTokens.
LogoutNoInvalidate(p, ok) ==
    /\ req[p].pc = "inv"
    /\ req' = [req EXCEPT ![p] = Idle]
    /\ resp' = Reject(req[p], "ok")
    /\ revoked' = revoked \cup {t \in issued : t.sub = req[p].uid}
    /\ UNCHANGED <<users, clock, issued, redeemed>>

\* Logout, second store step: InvalidateTokens(user_id).
LogoutInvalidate(p, ok) ==
    /\ req[p].pc = "inv"
    /\ req' = [req EXCEPT ![p] = Idle]
    /\ IF ok
       THEN /\ users[req[p].uid].count < MaxCount
            /\ users' = InvalidateTokensStore(req[p].uid)
            /\ resp' = Reject(req[p], "ok")
            /\ revoked' = revoked \cup {t \in issued : t.sub = req[p].uid}
       ELSE /\ resp' = Reject(req[p], "ErrInvalidateTokens")
            /\ UNCHANGED <<users, revoked>>
    /\ UNCHANGED <<clock, issued, redeemed>>

\* The process stops between two store steps of a handler.
Crash(p) ==
    /\ InFlight(p)
    /\ req' = [req EXCEPT ![p] = Idle]
    /\ resp' = Reject(req[p], "crash")
    /\ UNCHANGED <<users, clock, issued, redeemed, revoked>>

\* The tokens a request to a protected route is sent with in its
\* Authorization header.  The middleware keeps nothing of an access token
\* that ValidateToken rejects, so Forged stands for every rejected token.
AccessInputs == {t \in Presentable : ValidateTokenOK(t)} \cup {Forged}

\* A request to a protected route.  The refresh_token header matters only
\* when the access token is rejected.
MwRequest(p) ==
    \E a \in AccessInputs :
       \E r \in (IF ValidateTokenOK(a) THEN {NoToken} ELSE Presentable) :
          MwStart(p, a, r)

\* A Logout request, with any token a client has.
LogoutRequest(p) == \E a \in Presentable : LogoutStart(p, a)

\* One step of process p, for clients that act for the principals U.
Step(p, U) ==
    \/ \E u \in U, o \in RegisterOutcomes : Register(p, u, o)
    \/ \E u \in U, ok \in BOOLEAN : LoginStart(p, u, ok)
    \/ \E ok \in BOOLEAN : LoginGenerate(p, ok)
    \/ \E h \in BadHeaders : MwBadHeader(p, h)
    \/ MwRequest(p)
    \/ MwValidateRefresh(p)
    \/ \E ok \in BOOLEAN : MwCheckUsed(p, ok)
    \/ \E ok \in BOOLEAN : MwGenerate(p, ok)
    \/ \E ok \in BOOLEAN : MwUse(p, ok)
    \/ \E h \in BadHeaders : LogoutBadHeader(p, h)
    \/ LogoutRequest(p)
    \/ \E ok \in BOOLEAN : LogoutInvalidate(p, ok)
    \/ Crash(p)

\* Requests run one after the other, on one process.
NextSeq == Tick \/ Step(1, Users)

SpecSeq == Init /\ [][NextSeq]_vars

\* Requests run concurrently, interleaved at their store steps.  The
\* requests are those of one principal: requests of different principals
\* share no record.
RaceUsers == {"u1"}

Next == Tick \/ \E p \in Procs : Step(p, RaceUsers)

Spec == Init /\ [][Next]_vars

\* ------------------------------------------------------------------ claims
\* The middleware has just accepted a request on the refresh path.
Rotated == resp.op = "mw" /\ resp.res = "ok" /\ resp.path = "refresh"

\* The record state lets refresh token t through ValidateRefreshToken.
RedeemableIn(store, t) ==
    /\ ValidateTokenIn(store, t)
    /\ ~store[t.sub].used

\* C1: in a sequential history the refresh fallback succeeds at most once
\* for a refresh token: no request is given a pair on the refresh path for
\* a refresh token that an earlier request was given a pair for.
C1_RotateAtMostOnce == ~(Rotated /\ resp.again)

\* C2: of the requests that run at the same time through the refresh
\* fallback with one refresh token, no two are given a pair: a request is
\* not given a pair for a refresh token for which a request it overlapped
\* with was given one.
C2_OneWinner == ~(Rotated /\ resp.lost)

\* The principal a request was authenticated as.
Principal(r) == IF r.path = "access" THEN r.uid ELSE r.ref.sub

\* C3: once a Logout of a principal has completed, ValidateToken rejects
\* every token that had been sent for the principal, and no request gets
\* past the validation of its access token or of its refresh token with
\* such a token.
C3_LogoutRevokes ==
    /\ \A t \in revoked : ~ValidateTokenOK(t)
    /\ \A p \in Procs :
          (req[p].op = "mw" /\ req[p].pc \in {"chk", "gen", "use"})
             => (req[p].acc \notin revoked /\ req[p].ref \notin revoked)

\* A request with an unexpired refresh token from before the Logout has
\* just been rejected.
C3_Witness ==
    /\ resp.op = "mw"
    /\ resp.res = "400 Access and Refresh Tokens are Expired"
    /\ resp.ref \in revoked
    /\ clock < resp.ref.exp

\* C4: after ValidateAndGenerateTokens has succeeded, the record of the
\* principal holds the refresh token just returned as its current refresh
\* token, and the used flag is false.
C4_RotationKeepsLive ==
    (resp.op = "mw" /\ resp.res = "ok")
       => /\ Principal(resp) \in Users
          /\ users[Principal(resp)].refresh = resp.hdrRef
          /\ ~users[Principal(resp)].used

\* C5: on the refresh path the pair from GenerateTokens has the subject of
\* the refresh token, and UseToken is called for that subject.
C5_SubjectOfRefresh ==
    /\ \A p \in Procs :
          (req[p].path = "refresh" /\ req[p].pc = "use")
             => /\ req[p].newAcc.sub = req[p].ref.sub
                /\ req[p].newRef.sub = req[p].ref.sub
                /\ req[p].uid = req[p].ref.sub
    /\ Rotated => resp.hdrAcc.sub = resp.ref.sub

\* C6: the used flag of a record is true only when its current refresh
\* token has been redeemed on the refresh path, and reuse is reported only
\* for a refresh token that has been redeemed.
C6_UsedMeansRedeemed ==
    /\ \A u \in Users :
          (users[u].exists /\ users[u].used) => users[u].refresh \in redeemed
    /\ (resp.op = "mw" /\ resp.res = "400 Token Reuse Detected")
          => resp.ref \in redeemed

\* C7: a refresh token that is not the current refresh token of its
\* principal's record is rejected on the refresh path: GenerateTokens is
\* reached on the refresh path only with the stored current refresh token.
C7_StaleRefreshRejected ==
    \A p \in Procs :
       (req[p].path = "refresh" /\ req[p].pc = "use"
           /\ req[p].ref.class = "refresh")
          => req[p].ref = users[req[p].ref.sub].refresh

\* The rotation of refresh token resp.ref has just stopped after
\* CheckIfTokenUsed: a crash, or a failed store call.
Interrupted ==
    /\ resp.op = "mw"
    /\ resp.path = "refresh"
    /\ resp.res \in {"crash", "400 Error Generating Tokens",
                     "400 Error Updating Token Usage"}

\* The store after a rotation of refresh token t that succeeds.
RotateStore(store, t) ==
    UseTokenIn(GenerateTokensIn(store, FailedValidateId, t.count),
               FailedValidateId)

\* C8: the record state after a rotation that stopped between two store
\* steps lets the refresh token be redeemed at most once more (not again
\* after a redemption), and does not lock the principal out: the refresh
\* token, unless expired, can still be redeemed.
C8_InterruptionSafe ==
    Interrupted
       => /\ ~(/\ RedeemableIn(users, resp.ref)
               /\ RedeemableIn(RotateStore(users, resp.ref), resp.ref))
          /\ clock < resp.ref.exp => RedeemableIn(users, resp.ref)

\* C9: c.Next() runs only for a request whose access token validated or
\* whose refresh token validated and was unused; a request that
\* ValidateAndGenerateTokens returned an error for is rejected without
\* c.Next() and without the token headers.
C9_NextOnlyAuthenticated ==
    resp.op = "mw"
       => /\ resp.next => (resp.res = "ok" /\ resp.path \in {"access", "refresh"})
          /\ resp.res # "ok" => (~resp.next /\ ~resp.hdrs)

\* UseToken failed after GenerateTokens had made a pair.
C9_Witness == resp.op = "mw" /\ resp.res = "400 Error Updating Token Usage"

\* C10: after a successful Login the record holds the returned refresh
\* token as its current refresh token, not used, both returned tokens have
\* the count of the record, and the refresh token passes
\* ValidateRefreshToken.
C10_LoginLive ==
    (resp.op = "login" /\ resp.res = "ok")
       => /\ users[resp.uid].refresh = resp.hdrRef
          /\ ~users[resp.uid].used
          /\ resp.hdrAcc.count = users[resp.uid].count
          /\ resp.hdrRef.count = users[resp.uid].count
          /\ RedeemableIn(users, resp.hdrRef)

\* A Login that follows a Logout and a rotation.
C10_Witness ==
    /\ resp.op = "login"
    /\ resp.res = "ok"
    /\ users[resp.uid].count > 0
    /\ redeemed # {}

\* The rejections of ValidateRefreshToken for the token itself: ValidateToken
\* failed (signature, expiry, count), or the used flag is set.
AuthFailures ==
    {"400 Access and Refresh Tokens are Expired", "400 Token Reuse Detected"}

\* The rejections of ValidateAndGenerateTokens for an error of a store call:
\* CheckIfTokenUsed, GenerateTokens, UseToken.
StoreFailures ==
    {"400 Error Validating Token Reusage", "400 Error Generating Tokens",
     "400 Error Updating Token Usage"}

\* What the client sees of fiber.NewError(400, "Not Authorized, ..."): the
\* status, the leading words of the message, the message.
ErrorShape(res) ==
    IF res \in AuthFailures \cup StoreFailures
                  \cup {HeaderError(h) : h \in BadHeaders}
    THEN [status |-> 400, kind |-> "Not Authorized", message |-> res]
    ELSE [status |-> 0, kind |-> "none", message |-> res]

\* C11: every rejection by the token checks of the middleware has one
\* shape, status and message: a rejection for a failed check of the token
\* (reuse included) has the shape of the rejection of a request whose two
\* tokens both failed ValidateToken.  (The rejections for an error of a
\* store call, which are to have that shape too, have three more messages.)
C11_UniformRejection ==
    (resp.op = "mw" /\ resp.res \in AuthFailures)
       => ErrorShape(resp.res)
             = ErrorShape("400 Access and Refresh Tokens are Expired")

\* C12: the rejection for an error of a store call is of another kind than
\* the rejections for an invalid or reused token: it differs from them in
\* its status or in being "Not Authorized".
C12_StoreFailureDistinct ==
    (resp.op = "mw" /\ resp.res \in StoreFailures)
       => \A a \in AuthFailures :
             \/ ErrorShape(resp.res).status # ErrorShape(a).status
             \/ ErrorShape(resp.res).kind # ErrorShape(a).kind

\* C13: a request to the middleware or to Logout with an Authorization
\* header that is missing, not two words or not Bearer is answered with
\* status 400 in its first step: no handler is entered (no ValidateToken, no
\* store call), c.Next() is not called, no token header is added and no
\* record changes.
C13_BadHeaderRejected ==
    [][(/\ resp'.op \in {"mw", "logout"}
        /\ resp'.res \in {HeaderError(h) : h \in BadHeaders})
          => /\ ErrorShape(resp'.res).status = 400
             /\ ~resp'.next
             /\ ~resp'.hdrs
             /\ req' = req
             /\ users' = users]_vars

\* A Logout that is not Bearer has just been rejected while a record
\* exists.
C13_Witness ==
    /\ resp.op = "logout"
    /\ resp.res = HeaderError("type")
    /\ \E u \in Users : users[u].exists

\* C14: a Logout that succeeds adds exactly 1 to the count of its
\* principal, and no step of any operation makes the count of a record
\* smaller.
C14_EpochMonotone ==
    [][/\ \A u \in Users : users'[u].count >= users[u].count
       /\ (resp'.op = "logout" /\ resp'.res = "ok")
             => /\ users'[resp'.uid].count = users[resp'.uid].count + 1
                /\ \A u \in Users \ {resp'.uid} : users'[u] = users[u]]_vars

\* A Logout has just succeeded after a request of its principal had been
\* accepted.
C14_Witness ==
    /\ resp.op = "logout"
    /\ resp.res = "ok"
    /\ users[resp.uid].count = 1
    /\ users[resp.uid].used

\* C15: after a successful Register the new record has count 0, the used
\* flag false and the returned refresh token as its current refresh token;
\* both returned tokens have the id of the new record and count 0, and the
\* returned access token passes ValidateToken.
C15_RegisterLive ==
    (resp.op = "register" /\ resp.res = "ok")
       => /\ users[resp.uid].exists
          /\ users[resp.uid].count = 0
          /\ ~users[resp.uid].used
          /\ users[resp.uid].refresh = resp.hdrRef
          /\ resp.hdrAcc = Tok(resp.uid, 0, "access", resp.hdrAcc.exp)
          /\ resp.hdrRef = Tok(resp.uid, 0, "refresh", resp.hdrRef.exp)
          /\ ValidateTokenOK(resp.hdrAcc)

\* A Register has just succeeded while another principal, with requests
\* behind it, exists.
C15_Witness ==
    /\ resp.op = "register"
    /\ resp.res = "ok"
    /\ \E u \in Users \ {resp.uid} : users[u].exists /\ users[u].used

\* The step is a step of a request to the middleware.
MwStep ==
    \/ resp'.op = "mw"
    \/ \E p \in Procs : /\ req'[p] # req[p]
                        /\ (req[p].op = "mw" \/ req'[p].op = "mw")

C17_RejectionKeepsRecord ==
    [][(\/ resp'.op = "mw" /\ resp'.res \in AuthFailures
        \/ \E p \in Procs : /\ req'[p] # req[p]
                            /\ req'[p].op = "mw"
                            /\ req'[p].pc \in {"vrt", "chk"})
          => users' = users]_vars

\* The refresh token of a record whose used flag is set has just been
\* rejected as reused.
C17_Witness ==
    /\ resp.op = "mw"
    /\ resp.res = "400 Token Reuse Detected"
    /\ resp.ref.class = "refresh"
    /\ users[resp.ref.sub].used

\* The step is a step of a Logout.
LogoutStep ==
    \/ resp'.op = "logout"
    \/ \E p \in Procs : /\ req'[p] # req[p]
                        /\ (req[p].op = "logout" \/ req'[p].op = "logout")

\* C18: Logout comes to InvalidateTokens only with an access token of the
\* count of its principal's record that no Logout has revoked; a step of a
\* Logout changes a record only when the Logout succeeds, and a Logout that
\* returns an error has changed no record.
C18_LogoutNeedsValidToken ==
    /\ [](\A p \in Procs :
             req[p].pc = "inv"
                => /\ Decodable(req[p].acc)
                   /\ req[p].acc \notin revoked
                   /\ req[p].acc.sub = req[p].uid
                   /\ users[req[p].uid].exists
                   /\ req[p].acc.count = users[req[p].uid].count)
    /\ [][LogoutStep
            => /\ (resp'.op = "logout" /\ resp'.res # "ok") => users' = users
               /\ users' # users => (resp'.op = "logout" /\ resp'.res = "ok")]_vars

\* A Logout with an unexpired access token from before a Logout of its
\* principal has just been rejected.
C18_Witness ==
    /\ resp.op = "logout"
    /\ resp.res = "ErrValidateToken"
    /\ resp.stale
    /\ \E t \in revoked : t.class = "access" /\ clock < t.exp

\* C19: a response of Login or Register has the access_token and
\* refresh_token headers only when the operation succeeded, and a token in
\* them is a token of a principal that has a record.
C19_HeadersOnlyOnSuccess ==
    resp.op \in {"login", "register"}
       => /\ resp.hdrs => resp.res = "ok"
          /\ \A t \in {resp.hdrAcc, resp.hdrRef} \ {NoToken} :
                t.sub \in Users /\ users[t.sub].exists
====
